---- MODULE Spec2Model ----
(***************************************************************************)
(* Model of fetch_github_org_repos.py: the driver (main), the repository   *)
(* enumerator (fetch_org_repos), the pull-request counter                  *)
(* (fetch_pull_requests_count) and the credential rotation (switch_token). *)
(* One action is one pass through a loop body of the program: one request  *)
(* together with the handling of its response, one entry of the page being *)
(* normalised, or one organization being written out.                      *)
(***************************************************************************)
EXTENDS Integers, Sequences, FiniteSets, TLC

(* ---------------------------------------------------------------------- *)
(* Bounds of the model.                                                    *)
(* ---------------------------------------------------------------------- *)

\* len(GITHUB_TOKENS): size of the credential list read from the environment.
NumTokens == 2

\* len(ORG_NAMES): number of organizations read from the environment.
NumOrgs == 2

\* Number of transient failed attempts (soft error, transport error, exception
\* while handling a response) the environment injects in one run.
MaxFails == 2

(* ---------------------------------------------------------------------- *)
(* The data the server holds.  A cursor is modelled by the number of the   *)
(* page it ends: 0 is None (start of the listing), i is the endCursor of   *)
(* page i.                                                                 *)
(* ---------------------------------------------------------------------- *)

None == 0

\* A repository entry of nodes[]: a well-formed object ("repo"), a JSON null
\* ("null"), an object whose defaultBranchRef is null so that normalising it
\* raises ("badrec"), or a value that is no object at all ("nonobj").
Repo(n) == [kind |-> "repo", name |-> n]
NullEntry == [kind |-> "null", name |-> "-"]
BadRecord(n) == [kind |-> "badrec", name |-> n]
NonObject == [kind |-> "nonobj", name |-> "-"]

\* The pull-request listing of each repository: pages of state strings.
PullRequestPages(repo_name) ==
    CASE repo_name = "a" -> << <<"OPEN", "CLOSED">>, <<"MERGED", "OPEN">> >>
      [] repo_name = "b" -> << <<"DRAFT", "OPEN">> >>
      [] repo_name = "c" -> << <<>> >>
      [] OTHER -> << <<"CLOSED">> >>

\* The repository listings an organization can have.
Listings ==
    << \* two pages, a null entry inside the first
       << [nodes |-> <<Repo("a"), NullEntry, Repo("b")>>, hasNextPage |-> TRUE],
          [nodes |-> <<Repo("c")>>, hasNextPage |-> FALSE] >>,
       \* an organization without repositories
       << [nodes |-> <<>>, hasNextPage |-> FALSE] >>,
       \* an empty page that still reports a next page
       << [nodes |-> <<Repo("b")>>, hasNextPage |-> TRUE],
          [nodes |-> <<>>, hasNextPage |-> TRUE],
          [nodes |-> <<Repo("c")>>, hasNextPage |-> FALSE] >>,
       \* entries whose normalisation raises
       << [nodes |-> <<BadRecord("d"), Repo("c"), NonObject, Repo("b")>>,
           hasNextPage |-> FALSE] >> >>

VARIABLES
    shift,          \* which listing each organization has (chosen at start)
    token_index,    \* global token_index
    pc,             \* position of the program
    org,            \* index into ORG_NAMES of the for loop of main
    repo_details,   \* fetch_org_repos: accumulated rows
    cursor,         \* fetch_org_repos: cursor
    has_next_page,  \* fetch_org_repos: has_next_page
    repos,          \* fetch_org_repos: nodes of the page being processed
    idx,            \* fetch_org_repos: position of `for repo in repos`
    variables,      \* fetch_org_repos: variables of its latest request
    open_count,     \* fetch_pull_requests_count: open_count
    closed_count,   \* fetch_pull_requests_count: closed_count
    pr_cursor,      \* fetch_pull_requests_count: cursor
    pr_variables,   \* fetch_pull_requests_count: variables of its latest request
    report,         \* per organization: what main emitted
    fails,          \* number of failed attempts so far
    outcome,        \* how the attempt of the request issued last ended
    failKinds,      \* kinds of failed attempts since the organization began
    okCursors,      \* cursors of the completed page requests of the org listing
    orgReqs,        \* requests issued for the current organization listing
    prOkCursors,    \* cursors of the completed page requests of the latest
                    \* pull-request listing of the organization
    prReqs,         \* requests issued for that pull-request listing
    slept,          \* time units spent in sleep(1) so far
    outage,         \* TRUE once every request fails whatever the credential
    arg,            \* input a function of the program is applied to
    res             \* what the function returned for arg

enumVars == <<repo_details, cursor, has_next_page, repos, idx>>
prVars == <<open_count, closed_count, pr_cursor, pr_variables>>
orgHist == <<okCursors, orgReqs>>
prHist == <<prOkCursors, prReqs>>
envVars == <<shift, outage, arg, res>>
vars == <<envVars, token_index, pc, org, enumVars, variables, prVars, report,
          fails, outcome, failKinds, orgHist, prHist, slept>>

NumListings == Len(Listings)

Orgs == 1..NumOrgs

\* The listing of organization o in this run.
OrgListing(o) == Listings[((o + shift - 1) % NumListings) + 1]

\* What the server answers to the repository query with `after: c`.
OrgPage(o, c) ==
    IF c < Len(OrgListing(o))
    THEN [nodes |-> OrgListing(o)[c + 1].nodes,
          hasNextPage |-> OrgListing(o)[c + 1].hasNextPage,
          endCursor |-> IF OrgListing(o)[c + 1].nodes = <<>> THEN None ELSE c + 1]
    ELSE [nodes |-> <<>>, hasNextPage |-> FALSE, endCursor |-> None]

\* What the server answers to the pull-request query with `after: c`.
PullRequestPage(repo_name, c) ==
    [nodes |-> PullRequestPages(repo_name)[c + 1],
     hasNextPage |-> c + 1 < Len(PullRequestPages(repo_name)),
     endCursor |-> c + 1]

(* ---------------------------------------------------------------------- *)
(* switch_token and the counting of one page of states.                    *)
(* ---------------------------------------------------------------------- *)

\* switch_token() without the wrap-around.
SwitchTokenNoWrap(i) == i + 1

\* switch_token() with the modulus one too large.
SwitchTokenPastEnd(i) == (i + 1) % (NumTokens + 1)

\* switch_token(): token_index = (token_index + 1) % len(GITHUB_TOKENS)
SwitchToken(i) == (i + 1) % NumTokens

\* The states of nodes that `closed_count += 1` is executed for.
ClosedIn(nodes) ==
    Cardinality({i \in 1..Len(nodes) : nodes[i] = "CLOSED" \/ nodes[i] = "MERGED"})

\* `else` in place of `elif pr["state"] == "OPEN"`.
OpenInElse(nodes) ==
    Cardinality({i \in 1..Len(nodes) : ~(nodes[i] = "CLOSED" \/ nodes[i] = "MERGED")})

\* The states of nodes that `open_count += 1` is executed for.
OpenIn(nodes) ==
    Cardinality({i \in 1..Len(nodes) : nodes[i] = "OPEN"})

\* The row appended for a repository (the columns the counts go to).
RepoInfo(repo_name, open_pull_requests, closed_pull_requests) ==
    [name |-> repo_name, open |-> open_pull_requests, closed |-> closed_pull_requests]

NoRequest == [org |-> 0, repo |-> "-", cursor |-> None]

\* No function applied: arg and res of a run of the whole program.
NoValue == [t |-> "none"]

Init ==
    /\ shift \in 0..(NumListings - 1)
    /\ slept = 0
    /\ outage = FALSE
    /\ arg = NoValue
    /\ res = NoValue
    /\ token_index = 0
    /\ pc = "main"
    /\ org = 1
    /\ repo_details = <<>>
    /\ cursor = None
    /\ has_next_page = FALSE
    /\ repos = <<>>
    /\ idx = 1
    /\ variables = NoRequest
    /\ open_count = 0
    /\ closed_count = 0
    /\ pr_cursor = None
    /\ pr_variables = NoRequest
    /\ report = [o \in Orgs |-> [status |-> "none", rows |-> <<>>]]
    /\ fails = 0
    /\ outcome = "none"
    /\ failKinds = {}
    /\ okCursors = <<>>
    /\ orgReqs = 0
    /\ prOkCursors = <<>>
    /\ prReqs = 0

(* ---------------------------------------------------------------------- *)
(* main                                                                    *)
(* ---------------------------------------------------------------------- *)

\* The call starts again with the first token.
MainNextOrgResetsToken ==
    /\ pc = "main"
    /\ org <= NumOrgs
    /\ repo_details' = <<>>
    /\ cursor' = None
    /\ pc' = "enum_loop"
    /\ token_index' = 0
    /\ failKinds' = {}
    /\ okCursors' = <<>>
    /\ orgReqs' = 0
    /\ prOkCursors' = <<>>
    /\ prReqs' = 0
    /\ UNCHANGED <<envVars, slept, org, has_next_page, repos, idx, variables,
                   prVars, report, fails, outcome>>

\* for org in ORG_NAMES: repos = fetch_org_repos(org) -- entry of the call.
MainNextOrg ==
    /\ pc = "main"
    /\ org <= NumOrgs
    /\ repo_details' = <<>>
    /\ cursor' = None
    /\ pc' = "enum_loop"
    /\ failKinds' = {}
    /\ okCursors' = <<>>
    /\ orgReqs' = 0
    /\ prOkCursors' = <<>>
    /\ prReqs' = 0
    /\ UNCHANGED <<envVars, slept, token_index, org, has_next_page, repos, idx, variables,
                   prVars, report, fails, outcome>>

\* The for loop of main is exhausted.
MainDone ==
    /\ pc = "main"
    /\ org > NumOrgs
    /\ pc' = "done"
    /\ UNCHANGED <<envVars, slept, token_index, org, enumVars, variables, prVars, report,
                   fails, outcome, failKinds, orgHist, prHist>>

\* The report written without its first row.
MainWriteTruncated ==
    /\ pc = "enum_ret"
    /\ repo_details # <<>>
    /\ report' = [report EXCEPT ![org] = [status |-> "written", rows |-> Tail(repo_details)]]
    /\ org' = org + 1
    /\ pc' = "main"
    /\ UNCHANGED <<envVars, slept, token_index, enumVars, variables, prVars,
                   fails, outcome, failKinds, orgHist, prHist>>

\* if repos: the report is opened and written.
MainWrite ==
    /\ pc = "enum_ret"
    /\ repo_details # <<>>
    /\ report' = [report EXCEPT ![org] = [status |-> "written", rows |-> repo_details]]
    /\ org' = org + 1
    /\ pc' = "main"
    /\ UNCHANGED <<envVars, slept, token_index, enumVars, variables, prVars,
                   fails, outcome, failKinds, orgHist, prHist>>

\* if repos: open() or the writer raises; nothing in main catches it.
MainWriteError ==
    /\ pc = "enum_ret"
    /\ repo_details # <<>>
    /\ report' = [report EXCEPT ![org] = [status |-> "failed", rows |-> <<>>]]
    /\ pc' = "crashed"
    /\ UNCHANGED <<envVars, slept, token_index, org, enumVars, variables, prVars,
                   fails, outcome, failKinds, orgHist, prHist>>

\* The else branch missing: a report with the header only is written.
MainNoDataWritesHeader ==
    /\ pc = "enum_ret"
    /\ repo_details = <<>>
    /\ report' = [report EXCEPT ![org] = [status |-> "written", rows |-> <<>>]]
    /\ org' = org + 1
    /\ pc' = "main"
    /\ UNCHANGED <<envVars, slept, token_index, enumVars, variables, prVars,
                   fails, outcome, failKinds, orgHist, prHist>>

\* else: print("No data fetched ...")
MainNoData ==
    /\ pc = "enum_ret"
    /\ repo_details = <<>>
    /\ report' = [report EXCEPT ![org] = [status |-> "notice", rows |-> <<>>]]
    /\ org' = org + 1
    /\ pc' = "main"
    /\ UNCHANGED <<envVars, slept, token_index, enumVars, variables, prVars,
                   fails, outcome, failKinds, orgHist, prHist>>

(* ---------------------------------------------------------------------- *)
(* fetch_org_repos                                                         *)
(* ---------------------------------------------------------------------- *)

\* A request of the while loop whose attempt fails before the response is
\* looked at: switch_token(), then the loop starts over.
EnumFailedAttempt(kind) ==
    /\ pc = "enum_loop"
    /\ fails < MaxFails
    /\ variables' = [org |-> org, repo |-> "-", cursor |-> cursor]
    /\ token_index' = SwitchToken(token_index)
    /\ outcome' = kind
    /\ fails' = fails + 1
    /\ failKinds' = failKinds \cup {kind}
    /\ orgReqs' = orgReqs + 1
    /\ UNCHANGED <<envVars, slept, pc, org, enumVars, prVars, report, okCursors, prHist>>

\* if "errors" in data: switch_token(); continue
EnumSoftError == EnumFailedAttempt("soft")

\* except requests.exceptions.RequestException: switch_token()
EnumTransportError == EnumFailedAttempt("transport")

\* except Exception: switch_token() -- raised by the .get chain of a response
\* whose "data" (or "organization", "repositories", "pageInfo") is null.
EnumUnexpectedError == EnumFailedAttempt("unexpected")

\* The response handled without the `if not repos: break` test.
EnumPageNoEmptyTest ==
    /\ pc = "enum_loop"
    /\ ~outage
    /\ LET page == OrgPage(org, cursor) IN
        /\ variables' = [org |-> org, repo |-> "-", cursor |-> cursor]
        /\ repos' = page.nodes
        /\ has_next_page' = page.hasNextPage
        /\ cursor' = IF page.nodes = <<>> THEN cursor + 1 ELSE page.endCursor
        /\ idx' = 1
        /\ orgReqs' = orgReqs + 1
        /\ pc' = "enum_for"
        /\ outcome' = "processing"
        /\ okCursors' = okCursors
    /\ UNCHANGED <<envVars, slept, token_index, org, repo_details, prVars, report, fails,
                   failKinds, prHist>>

\* A response with data: repos, has_next_page and cursor are taken from it;
\* an empty page leaves the loop.
EnumPage ==
    /\ pc = "enum_loop"
    /\ ~outage
    /\ LET page == OrgPage(org, cursor) IN
        /\ variables' = [org |-> org, repo |-> "-", cursor |-> cursor]
        /\ repos' = page.nodes
        /\ has_next_page' = page.hasNextPage
        /\ cursor' = page.endCursor
        /\ idx' = 1
        /\ orgReqs' = orgReqs + 1
        /\ IF page.nodes = <<>>
           THEN /\ pc' = "enum_ret"
                /\ outcome' = "ok"
                /\ okCursors' = Append(okCursors, cursor)
           ELSE /\ pc' = "enum_for"
                /\ outcome' = "processing"
                /\ okCursors' = okCursors
    /\ UNCHANGED <<envVars, slept, token_index, org, repo_details, prVars, report, fails,
                   failKinds, prHist>>

\* `break` in place of `continue` at a null entry.
EnumSkipNullBreaks ==
    /\ pc = "enum_for"
    /\ idx <= Len(repos)
    /\ repos[idx].kind = "null"
    /\ idx' = Len(repos) + 1
    /\ UNCHANGED <<envVars, slept, token_index, pc, org, repo_details, cursor, has_next_page,
                   repos, variables, prVars, report, fails, outcome, failKinds,
                   orgHist, prHist>>

\* if repo is None: continue
EnumSkipNull ==
    /\ pc = "enum_for"
    /\ idx <= Len(repos)
    /\ repos[idx].kind = "null"
    /\ idx' = idx + 1
    /\ UNCHANGED <<envVars, slept, token_index, pc, org, repo_details, cursor, has_next_page,
                   repos, variables, prVars, report, fails, outcome, failKinds,
                   orgHist, prHist>>

\* The .get chain of the entry raises; the inner except logs it with
\* repo.get('name', 'N/A') and the for loop goes on.
EnumNormalizeError ==
    /\ pc = "enum_for"
    /\ idx <= Len(repos)
    /\ repos[idx].kind = "badrec"
    /\ idx' = idx + 1
    /\ UNCHANGED <<envVars, slept, token_index, pc, org, repo_details, cursor, has_next_page,
                   repos, variables, prVars, report, fails, outcome, failKinds,
                   orgHist, prHist>>

\* The entry has no .get: the inner try raises and so does the inner except;
\* the outer except Exception runs switch_token() and the while loop starts
\* over with the cursor already taken from this page.
EnumHandlerError ==
    /\ pc = "enum_for"
    /\ idx <= Len(repos)
    /\ repos[idx].kind = "nonobj"
    /\ token_index' = SwitchToken(token_index)
    /\ outcome' = "unexpected"
    /\ fails' = fails + 1
    /\ failKinds' = failKinds \cup {"handler"}
    /\ pc' = "enum_loop"
    /\ UNCHANGED <<envVars, slept, org, enumVars, variables, prVars, report, orgHist, prHist>>

\* The entry is normalised up to the call fetch_pull_requests_count(name, org).
EnumCallCounter ==
    /\ pc = "enum_for"
    /\ idx <= Len(repos)
    /\ repos[idx].kind = "repo"
    /\ open_count' = 0
    /\ closed_count' = 0
    /\ pr_cursor' = None
    /\ pr_variables' = pr_variables
    /\ prOkCursors' = <<>>
    /\ prReqs' = 0
    /\ pc' = "pr_loop"
    /\ UNCHANGED <<envVars, slept, token_index, org, enumVars, variables, report, fails,
                   outcome, failKinds, orgHist>>

\* The page end without the sleep(1) before the next request.
EnumPageEndNoSleep ==
    /\ pc = "enum_for"
    /\ idx > Len(repos)
    /\ pc' = IF has_next_page THEN "enum_loop" ELSE "enum_ret"
    /\ outcome' = "ok"
    /\ okCursors' = Append(okCursors, variables.cursor)
    /\ slept' = slept
    /\ UNCHANGED <<envVars, token_index, org, enumVars, variables,
                   prVars, report, fails, failKinds, orgReqs, prHist>>

\* After the for loop: if not has_next_page: break, else sleep(1) and loop.
EnumPageEnd ==
    /\ pc = "enum_for"
    /\ idx > Len(repos)
    /\ pc' = IF has_next_page THEN "enum_loop" ELSE "enum_ret"
    /\ outcome' = "ok"
    /\ okCursors' = Append(okCursors, variables.cursor)
    /\ slept' = IF has_next_page THEN slept + 1 ELSE slept
    /\ UNCHANGED <<envVars, token_index, org, enumVars, variables,
                   prVars, report, fails, failKinds, orgReqs, prHist>>

(* ---------------------------------------------------------------------- *)
(* fetch_pull_requests_count, called for repos[idx]                        *)
(* ---------------------------------------------------------------------- *)

\* A failed attempt that also moves the cursor on when the listing has a
\* further page (the cursor assigned before the response is classified).
PrFailedAttemptSkipsPage(kind, counted) ==
    /\ pc = "pr_loop"
    /\ fails < MaxFails
    /\ pr_variables' = [org |-> org, repo |-> repos[idx].name, cursor |-> pr_cursor]
    /\ open_count' = open_count + OpenIn(counted)
    /\ closed_count' = closed_count + ClosedIn(counted)
    /\ pr_cursor' = IF PullRequestPage(repos[idx].name, pr_cursor).hasNextPage
                    THEN pr_cursor + 1 ELSE pr_cursor
    /\ token_index' = SwitchToken(token_index)
    /\ outcome' = kind
    /\ fails' = fails + 1
    /\ failKinds' = failKinds \cup {kind}
    /\ prReqs' = prReqs + 1
    /\ UNCHANGED <<envVars, slept, pc, org, enumVars, variables, report, orgHist, prOkCursors>>

\* A failed attempt that leaves the while loop: the counts so far are
\* returned and the row is appended (break instead of retry).
PrFailedAttemptBreaks(kind, counted) ==
    /\ pc = "pr_loop"
    /\ fails < MaxFails
    /\ pr_variables' = [org |-> org, repo |-> repos[idx].name, cursor |-> pr_cursor]
    /\ open_count' = open_count + OpenIn(counted)
    /\ closed_count' = closed_count + ClosedIn(counted)
    /\ token_index' = SwitchToken(token_index)
    /\ outcome' = kind
    /\ fails' = fails + 1
    /\ failKinds' = failKinds \cup {kind}
    /\ prReqs' = prReqs + 1
    /\ repo_details' = Append(repo_details,
                              RepoInfo(repos[idx].name, open_count', closed_count'))
    /\ idx' = idx + 1
    /\ pc' = "enum_for"
    /\ UNCHANGED <<envVars, slept, org, cursor, has_next_page, repos, variables, pr_cursor,
                   report, orgHist, prOkCursors>>

\* A request of the while loop whose attempt fails: the first `counted`
\* nodes of the response have gone through the for loop, then
\* switch_token() runs and the loop starts over.
PrFailedAttempt(kind, counted) ==
    /\ pc = "pr_loop"
    /\ fails < MaxFails
    /\ pr_variables' = [org |-> org, repo |-> repos[idx].name, cursor |-> pr_cursor]
    /\ open_count' = open_count + OpenIn(counted)
    /\ closed_count' = closed_count + ClosedIn(counted)
    /\ token_index' = SwitchToken(token_index)
    /\ outcome' = kind
    /\ fails' = fails + 1
    /\ failKinds' = failKinds \cup {kind}
    /\ prReqs' = prReqs + 1
    /\ UNCHANGED <<envVars, slept, pc, org, enumVars, variables, pr_cursor, report,
                   orgHist, prOkCursors>>

\* if "errors" in data: switch_token(); continue
PrSoftError == PrFailedAttempt("soft", <<>>)

\* except requests.exceptions.RequestException: switch_token()
PrTransportError == PrFailedAttempt("transport", <<>>)

\* except Exception: switch_token() -- raised while the response is being
\* processed: by the subscript chain before the for loop (k = 0), by
\* pr["state"] of node k + 1 (a null or state-less node), or by the pageInfo
\* subscripts after the for loop (k = number of nodes).
PrProcessingError ==
    /\ pc = "pr_loop"
    /\ \E k \in 0..Len(PullRequestPage(repos[idx].name, pr_cursor).nodes) :
           PrFailedAttempt("processing",
                           SubSeq(PullRequestPage(repos[idx].name, pr_cursor).nodes, 1, k))

\* A response that is processed to the end: every node counted, then either
\* break / return / the row appended in fetch_org_repos, or the cursor
\* advanced and sleep(1).
PrPage ==
    /\ pc = "pr_loop"
    /\ ~outage
    /\ LET page == PullRequestPage(repos[idx].name, pr_cursor)
           opened == open_count + OpenIn(page.nodes)
           closed == closed_count + ClosedIn(page.nodes)
       IN
        /\ pr_variables' = [org |-> org, repo |-> repos[idx].name, cursor |-> pr_cursor]
        /\ open_count' = opened
        /\ closed_count' = closed
        /\ outcome' = "ok"
        /\ prReqs' = prReqs + 1
        /\ prOkCursors' = Append(prOkCursors, pr_cursor)
        /\ IF page.hasNextPage
           THEN /\ pr_cursor' = page.endCursor
                /\ slept' = slept + 1
                /\ UNCHANGED <<pc, repo_details, idx>>
           ELSE /\ pr_cursor' = pr_cursor
                /\ slept' = slept
                /\ repo_details' =
                       Append(repo_details, RepoInfo(repos[idx].name, opened, closed))
                /\ idx' = idx + 1
                /\ pc' = "enum_for"
    /\ UNCHANGED <<envVars, token_index, org, cursor, has_next_page, repos, variables,
                   report, fails, failKinds, orgHist>>

Next ==
    \/ MainNextOrg
    \/ MainDone
    \/ MainWrite
    \/ MainWriteError
    \/ MainNoData
    \/ EnumSoftError
    \/ EnumTransportError
    \/ EnumUnexpectedError
    \/ EnumPage
    \/ EnumSkipNull
    \/ EnumNormalizeError
    \/ EnumHandlerError
    \/ EnumCallCounter
    \/ EnumPageEnd
    \/ PrSoftError
    \/ PrTransportError
    \/ PrProcessingError
    \/ PrPage

Spec == Init /\ [][Next]_vars

TypeOK ==
    /\ token_index \in 0..(NumTokens - 1)
    /\ pc \in {"main", "enum_loop", "enum_for", "pr_loop", "enum_ret", "done", "crashed"}
    /\ org \in 1..(NumOrgs + 1)

(* ---------------------------------------------------------------------- *)
(* What the listings hold, and what a run without failed attempts returns. *)
(* ---------------------------------------------------------------------- *)

\* The positions <<page, node>> of a repository's pull-request listing.
PullRequestPositions(repo_name) ==
    UNION {{<<p, i>> : i \in 1..Len(PullRequestPages(repo_name)[p])} :
              p \in 1..Len(PullRequestPages(repo_name))}

\* Number of OPEN states over all pages of the listing.
TrueOpen(repo_name) ==
    Cardinality({x \in PullRequestPositions(repo_name) :
                    PullRequestPages(repo_name)[x[1]][x[2]] = "OPEN"})

\* Number of CLOSED or MERGED states over all pages of the listing.
TrueClosed(repo_name) ==
    Cardinality({x \in PullRequestPositions(repo_name) :
                    PullRequestPages(repo_name)[x[1]][x[2]] \in {"CLOSED", "MERGED"}})

\* fetch_pull_requests_count when every request succeeds, from cursor c on.
RECURSIVE DrainPullRequests(_, _, _, _)
DrainPullRequests(repo_name, c, opened, closed) ==
    LET page == PullRequestPage(repo_name, c) IN
    IF page.hasNextPage
    THEN DrainPullRequests(repo_name, page.endCursor,
                           opened + OpenIn(page.nodes), closed + ClosedIn(page.nodes))
    ELSE <<opened + OpenIn(page.nodes), closed + ClosedIn(page.nodes)>>

\* The for loop over the entries of one page when every request succeeds:
\* a row for each object that normalises, nothing for the other entries.
RECURSIVE RowsOfEntries(_, _)
RowsOfEntries(nodes, rows) ==
    IF nodes = <<>> THEN rows
    ELSE IF Head(nodes).kind = "repo"
         THEN LET counts == DrainPullRequests(Head(nodes).name, None, 0, 0) IN
              RowsOfEntries(Tail(nodes),
                  Append(rows, RepoInfo(Head(nodes).name, counts[1], counts[2])))
         ELSE RowsOfEntries(Tail(nodes), rows)

\* fetch_org_repos when every request succeeds, from cursor c on.
RECURSIVE DrainOrg(_, _, _)
DrainOrg(o, c, rows) ==
    LET page == OrgPage(o, c) IN
    IF page.nodes = <<>> THEN rows
    ELSE IF page.hasNextPage
         THEN DrainOrg(o, page.endCursor, RowsOfEntries(page.nodes, rows))
         ELSE RowsOfEntries(page.nodes, rows)

(* ---------------------------------------------------------------------- *)
(* Claims                                                                  *)
(* ---------------------------------------------------------------------- *)

\* C1: in the counter and in the enumerator, an attempt that ends in a soft
\* failure or a transport failure advances token_index by exactly one modulo
\* the number of tokens and changes nothing else (cursors, counts, rows and
\* the position of the program stay), and the request issued next carries the
\* variables of the failed attempt.
C1_FailedAttemptFrame ==
    [][ /\ (fails' = fails + 1 /\ outcome' \in {"soft", "transport"}) =>
              /\ token_index' = (token_index + 1) % NumTokens
              /\ token_index' # token_index \/ NumTokens = 1
              /\ UNCHANGED <<pc, org, repo_details, cursor, has_next_page, repos, idx,
                             open_count, closed_count, pr_cursor, report>>
        /\ (pc = "enum_loop" /\ outcome \in {"soft", "transport"}
               /\ orgReqs' = orgReqs + 1) => variables' = variables
        /\ (pc = "pr_loop" /\ outcome \in {"soft", "transport"}
               /\ prReqs' = prReqs + 1) => pr_variables' = pr_variables
      ]_vars

\* C1 witness: a soft failure on the second page of a pull-request listing,
\* with the cursor and the counts of the first page still in place.
C1_Witness ==
    /\ pc = "pr_loop"
    /\ outcome = "soft"
    /\ pr_cursor = 1
    /\ pr_variables.cursor = 1
    /\ open_count = 1
    /\ closed_count = 1
    /\ token_index = 1

\* C2: soft errors are transparent to the result: when the only failed
\* attempts of an organization's enumeration (nested counter calls included)
\* were soft errors, the rows returned equal the rows a run without any
\* failed attempt returns for the same listing, and every soft error rotated
\* exactly once.
C2_SoftErrorsTransparent ==
    /\ token_index = fails % NumTokens
    /\ (pc = "enum_ret" /\ failKinds \subseteq {"soft"}) =>
           repo_details = DrainOrg(org, None, <<>>)

\* C2 witness: an enumeration that returned rows after soft errors only.
C2_Witness ==
    /\ pc = "enum_ret"
    /\ failKinds = {"soft"}
    /\ fails = 2
    /\ Len(repo_details) = 3

\* C3: every row's Open and Closed Pull Requests equal the number of OPEN and
\* of CLOSED-or-MERGED states over all pages of its repository's listing.
C3_RowCountsAreTrueCounts ==
    \A i \in 1..Len(repo_details) :
        /\ repo_details[i].open = TrueOpen(repo_details[i].name)
        /\ repo_details[i].closed = TrueClosed(repo_details[i].name)

\* C4: the counter is left only by the step that processes a page without a
\* next page to its end, returning to the for loop of the enumerator; a
\* failed attempt of any kind stays in the counter's loop.
C4_CounterReturnsOnlyOnExhaustion ==
    [][ /\ (pc = "pr_loop" /\ pc' # "pr_loop") =>
              /\ pc' = "enum_for"
              /\ outcome' = "ok"
              /\ ~PullRequestPage(repos[idx].name, pr_cursor).hasNextPage
              /\ pr_variables'.cursor = pr_cursor
        /\ (pc = "pr_loop" /\ fails' # fails) => pc' = "pr_loop"
      ]_vars

\* C4 witness: the counter has returned from a listing in which attempts failed.
C4_Witness ==
    /\ pc = "enum_for"
    /\ outcome = "ok"
    /\ idx > 1
    /\ prReqs > Len(prOkCursors)
    /\ prOkCursors # <<>>

\* Number of pages of a pull-request listing (its last page is the first one
\* that reports no next page).
PullRequestK(repo_name) == Len(PullRequestPages(repo_name))

\* Number of the first page of an organization's listing at which the
\* listing is exhausted for the enumerator: no next page, or no entries.
OrgK(o) ==
    CHOOSE k \in 1..Len(OrgListing(o)) :
        /\ ~OrgListing(o)[k].hasNextPage \/ OrgListing(o)[k].nodes = <<>>
        /\ \A j \in 1..(k - 1) :
               OrgListing(o)[j].hasNextPage /\ OrgListing(o)[j].nodes # <<>>

\* The cursors of the first n pages: None, then the end cursor of each page.
CursorsOfPages(n) == [i \in 1..n |-> i - 1]

\* C5: a listing exhausted after K pages gets exactly K successful page
\* requests from the counter and from the enumerator, the i-th with the end
\* cursor of page i-1 (None for the first), exactly K requests in all when no
\* attempt fails, and none after the first page that reports no next page.
C5_ExactlyKPageRequests ==
    /\ pc = "pr_loop" =>
           /\ Len(prOkCursors) < PullRequestK(repos[idx].name)
           /\ prOkCursors = CursorsOfPages(Len(prOkCursors))
    /\ (pc # "pr_loop" /\ prOkCursors # <<>>) =>
           /\ prOkCursors = CursorsOfPages(PullRequestK(pr_variables.repo))
           /\ prReqs >= PullRequestK(pr_variables.repo)
           /\ failKinds = {} => prReqs = PullRequestK(pr_variables.repo)
    /\ pc \in {"enum_loop", "enum_for", "pr_loop"} =>
           /\ Len(okCursors) < OrgK(org)
           /\ okCursors = CursorsOfPages(Len(okCursors))
    /\ pc = "enum_ret" =>
           /\ okCursors = CursorsOfPages(OrgK(org))
           /\ failKinds = {} => orgReqs = OrgK(org)

\* C6: the enumerator returns exactly at a page processed to its end that has
\* no entries or reports no next page; an empty page returns even when it
\* reports a next page, the rows of the earlier pages are returned, and an
\* empty first page returns zero rows without rotation.
C6_EnumeratorStopCondition ==
    [][ /\ (pc \in {"enum_loop", "enum_for", "pr_loop"} /\ pc' = "enum_ret") =>
              /\ outcome' = "ok"
              /\ repos' = <<>> \/ ~has_next_page'
              /\ repo_details' = repo_details
              /\ token_index' = token_index
        /\ Len(okCursors') = Len(okCursors) + 1 =>
              (pc' = "enum_ret" <=> (repos' = <<>> \/ ~has_next_page'))
        /\ (pc = "enum_loop" /\ outcome' \in {"ok", "processing"}
               /\ OrgPage(org, cursor).nodes = <<>>) =>
              /\ pc' = "enum_ret"
              /\ repo_details' = repo_details
              /\ token_index' = token_index
              /\ cursor = None => repo_details' = <<>>
      ]_vars

\* C6 witness: the enumerator returned rows of an earlier page at an empty
\* page that reports a next page.
C6_Witness ==
    /\ pc = "enum_ret"
    /\ repos = <<>>
    /\ has_next_page
    /\ repo_details # <<>>

\* The program runs on while it can: the interpreter executes the next
\* statement, and a request that failed is followed by its retry.
LiveSpec == Spec /\ WF_vars(Next)

\* C7: the run terminates with every listing drained and every organization
\* of the list processed.
C7_RunProcessesEveryOrg ==
    <>(pc = "done" /\ \A o \in Orgs : report[o].status \in {"written", "notice"})

\* C8: when an organization fails with an exception in the driver, the
\* driver does not stop while later organizations remain unattempted.
C8_LaterOrgsAttempted ==
    (\E o \in Orgs : report[o].status = "failed" /\ o < NumOrgs) => pc # "crashed"

\* C9: an organization's report is written at most once, by the driver step
\* that follows the return of the enumerator, with exactly the rows returned;
\* every request is for an organization whose report is not yet written.
C9_WriteOnceAfterEnumeration ==
    [][ /\ \A o \in Orgs : report'[o] # report[o] =>
              /\ pc = "enum_ret"
              /\ pc' \in {"main", "crashed"}
              /\ o = org
              /\ report[o].status = "none"
              /\ report'[o].status = "written" => report'[o].rows = repo_details
        /\ (orgReqs' = orgReqs + 1 \/ prReqs' = prReqs + 1) =>
              /\ pc \in {"enum_loop", "pr_loop"}
              /\ report[org].status = "none"
              /\ \A o \in Orgs : report[o].status # "none" => o < org
              /\ orgReqs' = orgReqs + 1 => variables'.org = org
              /\ prReqs' = prReqs + 1 => pr_variables'.org = org
      ]_vars

\* C9 witness: the first organization's report holds the three rows the
\* enumerator returned after failed attempts.
C9_Witness ==
    /\ pc = "main"
    /\ org = 2
    /\ report[1].status = "written"
    /\ report[1].rows = repo_details
    /\ Len(repo_details) = 3
    /\ fails > 0

\* C10: an enumeration that returns no rows ends in the notice, without a
\* file and without an exception; the driver takes the writing branch if and
\* only if the rows are non-empty, so no written report is empty.
C10_FileIffRows ==
    [][ (pc = "enum_ret" /\ pc' # "enum_ret") =>
              /\ repo_details = <<>> =>
                     (report'[org].status = "notice" /\ pc' = "main")
              /\ repo_details # <<>> => report'[org].status \in {"written", "failed"}
              /\ report'[org].status = "written" => report'[org].rows # <<>>
      ]_vars

\* C10 witness: one organization ended in the notice, the next in a file.
C10_Witness ==
    /\ pc = "main"
    /\ report[1].status = "notice"
    /\ report[2].status = "written"

\* switch_token() called n times from index i.
RECURSIVE RotateTimes(_, _)
RotateTimes(i, n) == IF n = 0 THEN i ELSE RotateTimes(SwitchToken(i), n - 1)

\* C11: from every index of the credential list, and so from the index the
\* program is at, N calls of switch_token() lead back to that index; and
\* token_index changes only in a step that calls switch_token() (a failed
\* attempt), to the index switch_token() computes.
C11_RotateIsCyclicAndOnlyMutator ==
    /\ [](/\ \A s \in 0..(NumTokens - 1) : RotateTimes(s, NumTokens) = s
          /\ RotateTimes(token_index, NumTokens) = token_index)
    /\ [][token_index' # token_index =>
              /\ fails' = fails + 1
              /\ token_index' = (token_index + 1) % NumTokens]_vars

\* C11 witness: the program has rotated N times and is back at index 0.
C11_Witness ==
    /\ fails = NumTokens
    /\ token_index = 0
    /\ outcome \in {"soft", "transport", "unexpected", "processing"}

(* ---------------------------------------------------------------------- *)
(* The functions of the program applied to drawn inputs: the for loop over *)
(* the states of one page (lines 85-89) and the normalisation of one       *)
(* repository entry (lines 197-202).  JSON values are tagged records; an   *)
(* object is the set of its <<key, value>> pairs.                          *)
(* ---------------------------------------------------------------------- *)

\* Longest page of states drawn.
MaxStates == 4

Null == [t |-> "null"]
Str(x) == [t |-> "str", chars |-> x]
Num(x) == [t |-> "int", n |-> x]
List(x) == [t |-> "list", items |-> x]
Obj(x) == [t |-> "obj", pairs |-> x]

\* An exception raised while the expression is evaluated.
Raised == [t |-> "raise"]

\* d.get(k) without the default: None for a missing key.
GetWithoutDefault(d, k, dflt) ==
    IF d.t = "raise" THEN Raised
    ELSE IF d.t # "obj" THEN Raised
    ELSE IF \E p \in d.pairs : p[1] = k THEN (CHOOSE p \in d.pairs : p[1] = k)[2]
    ELSE Null

\* d.get(k, dflt): AttributeError when d is no dict, the value stored under k
\* when the key is present (None included), dflt when it is missing.
Get(d, k, dflt) ==
    IF d.t = "raise" THEN Raised
    ELSE IF d.t # "obj" THEN Raised
    ELSE IF \E p \in d.pairs : p[1] = k THEN (CHOOSE p \in d.pairs : p[1] = k)[2]
    ELSE dflt

\* x[0]: the first element of a non-empty list; IndexError for an empty
\* list, TypeError for None, KeyError for a dict.
First(x) ==
    IF x.t = "list" /\ Len(x.items) > 0 THEN x.items[1] ELSE Raised

\* repo.get("defaultBranchRef", {}).get("target", {}).get("history", {})
History(repo) ==
    Get(Get(Get(repo, "defaultBranchRef", Obj({})), "target", Obj({})), "history", Obj({}))

\* Lines 197-202: name, default_branch, total_commits and last_pusher of one
\* entry; an exception in any of them leaves the try block.
Normalize(repo) ==
    LET name == Get(repo, "name", Str("N/A"))
        default_branch == Get(Get(repo, "defaultBranchRef", Obj({})), "name", Str("N/A"))
        total_commits == Get(History(repo), "totalCount", Num(0))
        last_pusher ==
            Get(Get(Get(First(Get(History(repo), "nodes", List(<<Obj({})>>))),
                        "author", Obj({})), "user", Obj({})), "login", Str("N/A"))
    IN  IF Raised \in {name, default_branch, total_commits, last_pusher}
        THEN Raised
        ELSE [t |-> "row", name |-> name, default_branch |-> default_branch,
              total_commits |-> total_commits, last_pusher |-> last_pusher]

\* The values a key of the response can hold, level by level of the path
\* defaultBranchRef -> target -> history -> nodes[0] -> author -> user -> login.
\* A key is missing when no pair of the object names it.
Field(k, values) == {{<<k, x>>} : x \in values} \cup {{}}

UserValues == {Null} \cup {Obj(f) : f \in Field("login", {Null, Str("alice")})}
AuthorValues == {Null} \cup {Obj(f) : f \in Field("user", UserValues)}
CommitValues == {Null} \cup {Obj(f) : f \in Field("author", AuthorValues)}
NodesValues == {Null, List(<<>>)} \cup {List(<<c>>) : c \in CommitValues}
HistoryValues ==
    {Null} \cup {Obj(f \cup g) : f \in Field("nodes", NodesValues),
                                g \in Field("totalCount", {Num(7)})}
TargetValues == {Null} \cup {Obj(f) : f \in Field("history", HistoryValues)}
BranchValues ==
    {Null} \cup {Obj(f \cup g) : f \in Field("target", TargetValues),
                                g \in Field("name", {Str("main")})}
Entries ==
    {Obj(f \cup g) : f \in Field("defaultBranchRef", BranchValues),
                     g \in Field("name", {Str("r")})}

\* Sequences of states of length n.
RECURSIVE StatesOfLen(_)
StatesOfLen(n) ==
    IF n = 0 THEN {<<>>}
    ELSE {Append(q, x) : q \in StatesOfLen(n - 1),
                         x \in {"OPEN", "CLOSED", "MERGED", "DRAFT"}}

StatePages == UNION {StatesOfLen(n) : n \in 0..MaxStates}

PureInit ==
    /\ shift = 0
    /\ slept = 0
    /\ outage = FALSE
    /\ arg \in {[fn |-> "normalize", entry |-> e] : e \in Entries}
              \cup {[fn |-> "count", states |-> q] : q \in StatePages}
    /\ res = NoValue
    /\ token_index = 0
    /\ pc = "apply"
    /\ org = 1
    /\ repo_details = <<>>
    /\ cursor = None
    /\ has_next_page = FALSE
    /\ repos = <<>>
    /\ idx = 1
    /\ variables = NoRequest
    /\ open_count = 0
    /\ closed_count = 0
    /\ pr_cursor = None
    /\ pr_variables = NoRequest
    /\ report = [o \in Orgs |-> [status |-> "none", rows |-> <<>>]]
    /\ fails = 0
    /\ outcome = "none"
    /\ failKinds = {}
    /\ okCursors = <<>>
    /\ orgReqs = 0
    /\ prOkCursors = <<>>
    /\ prReqs = 0

\* for pr in pull_requests: ... (lines 85-89) on the page arg.states.
ApplyCount ==
    /\ pc = "apply"
    /\ arg.fn = "count"
    /\ open_count' = open_count + OpenIn(arg.states)
    /\ closed_count' = closed_count + ClosedIn(arg.states)
    /\ res' = [t |-> "counted"]
    /\ pc' = "applied"
    /\ UNCHANGED <<shift, outage, arg, slept, token_index, org, enumVars, variables,
                   pr_cursor, pr_variables, report, fails, outcome, failKinds,
                   orgHist, prHist>>

\* Lines 197-202 on the entry arg.entry.
ApplyNormalize ==
    /\ pc = "apply"
    /\ arg.fn = "normalize"
    /\ res' = Normalize(arg.entry)
    /\ pc' = "applied"
    /\ UNCHANGED <<shift, outage, arg, slept, token_index, org, enumVars, variables,
                   open_count, closed_count, pr_cursor, pr_variables, report, fails,
                   outcome, failKinds, orgHist, prHist>>

PureNext ==
    \/ ApplyCount
    \/ ApplyNormalize

PureSpec == PureInit /\ [][PureNext]_vars

\* What one state adds to the pair <<open, closed>>.
Adds(state) ==
    IF state = "OPEN" THEN <<1, 0>>
    ELSE IF state \in {"CLOSED", "MERGED"} THEN <<0, 1>>
    ELSE <<0, 0>>

RECURSIVE Tally(_)
Tally(states) ==
    IF states = <<>> THEN <<0, 0>>
    ELSE LET rest == Tally(Tail(states))
         IN  <<Adds(Head(states))[1] + rest[1], Adds(Head(states))[2] + rest[2]>>

\* C12: processing one page of pull-request states adds one to the closed
\* count for each CLOSED or MERGED state and one to the open count for each
\* OPEN state; any other state changes neither count, raises nothing and
\* rotates no token.  The page [OPEN, CLOSED, MERGED, OPEN] gives 2 and 2.
C12_PageStateClassification ==
    /\ Tally(<<"OPEN", "CLOSED", "MERGED", "OPEN">>) = <<2, 2>>
    /\ (pc = "applied" /\ arg.fn = "count") =>
            /\ <<open_count, closed_count>> = Tally(arg.states)
            /\ open_count + closed_count
                 = Cardinality({i \in 1..Len(arg.states) : arg.states[i] # "DRAFT"})
            /\ res = [t |-> "counted"]
            /\ token_index = 0
            /\ fails = 0

C12_Witness ==
    /\ pc = "applied"
    /\ arg.fn = "count"
    /\ arg.states = <<"OPEN", "CLOSED", "MERGED", "OPEN">>
    /\ open_count = 2
    /\ closed_count = 2

\* A level of the path is absent in v: v is no object, the key is missing,
\* its value is null or the list of nodes is empty.  "[0]" is the index step.
RECURSIVE Absent(_, _)
Absent(v, path) ==
    IF path = <<>> THEN v.t = "null"
    ELSE IF Head(path) = "[0]"
         THEN \/ v.t # "list"
              \/ Len(v.items) = 0
              \/ Absent(v.items[1], Tail(path))
         ELSE \/ v.t # "obj"
              \/ ~(\E p \in v.pairs : p[1] = Head(path))
              \/ Absent((CHOOSE p \in v.pairs : p[1] = Head(path))[2], Tail(path))

LoginPath == <<"defaultBranchRef", "target", "history", "nodes", "[0]", "author", "user", "login">>

\* C15: when any level of the path defaultBranchRef -> target -> history ->
\* nodes[0] -> author -> user -> login is absent (key missing, value null,
\* nodes empty), the row is still produced and its Last Pusher is "N/A".
C15_AbsentPusherGivesRow ==
    (pc = "applied" /\ arg.fn = "normalize" /\ Absent(arg.entry, LoginPath)) =>
        /\ res.t = "row"
        /\ res.last_pusher = Str("N/A")

\* C16: a repository record without the defaultBranchRef key raises nothing
\* and gives Default Branch "N/A", Total Commits 0 and Last Pusher "N/A".
C16_MissingBranchGivesDefaults ==
    (/\ pc = "applied"
     /\ arg.fn = "normalize"
     /\ ~(\E p \in arg.entry.pairs : p[1] = "defaultBranchRef")) =>
        /\ res # Raised
        /\ res.t = "row"
        /\ res.default_branch = Str("N/A")
        /\ res.total_commits = Num(0)
        /\ res.last_pusher = Str("N/A")

C16_Witness ==
    /\ pc = "applied"
    /\ arg = [fn |-> "normalize", entry |-> Obj({<<"name", Str("r")>>})]
    /\ res = [t |-> "row", name |-> Str("r"), default_branch |-> Str("N/A"),
              total_commits |-> Num(0), last_pusher |-> Str("N/A")]

\* C13: a null entry of a page gives no row and does not end the page: the
\* for loop moves to the next entry of the same page, and rows, page, cursor,
\* token and the number of requests and failed attempts stay as they are.
C13_NullEntrySkipped ==
    [][(pc = "enum_for" /\ idx <= Len(repos) /\ repos[idx].kind = "null") =>
            /\ idx' = idx + 1
            /\ pc' = "enum_for"
            /\ UNCHANGED <<repo_details, repos, cursor, has_next_page, variables,
                           token_index, fails, orgReqs, report>>]_vars

\* The entry after a null entry has got its row.
C13_Witness ==
    /\ pc = "enum_for"
    /\ repos = <<Repo("a"), NullEntry, Repo("b")>>
    /\ idx = 4
    /\ [i \in 1..Len(repo_details) |-> repo_details[i].name] = <<"a", "b">>
    /\ fails = 0

\* C14: an entry whose normalisation raises gives no row and is skipped: the
\* for loop moves to the next entry of the same page, nothing reaches the
\* outer handlers (no rotation, no new request) and later entries and pages
\* are processed.
C14_NormalizeErrorSkipped ==
    [][(pc = "enum_for" /\ idx <= Len(repos)
            /\ repos[idx].kind \in {"badrec", "nonobj"}) =>
            /\ idx' = idx + 1
            /\ pc' = "enum_for"
            /\ UNCHANGED <<repo_details, repos, cursor, has_next_page,
                           token_index, fails>>]_vars

\* The names of the entries of nodes that are repositories, in order.
RECURSIVE NamesOfEntries(_)
NamesOfEntries(nodes) ==
    IF nodes = <<>> THEN <<>>
    ELSE IF Head(nodes).kind = "repo"
         THEN <<Head(nodes).name>> \o NamesOfEntries(Tail(nodes))
         ELSE NamesOfEntries(Tail(nodes))

\* The repositories of the first k pages of organization o, in page order.
RECURSIVE ListedNames(_, _)
ListedNames(o, k) ==
    IF k = 0 THEN <<>>
    ELSE ListedNames(o, k - 1) \o NamesOfEntries(OrgListing(o)[k].nodes)

\* C17: the rows of a written report are the repositories of that
\* organization's listing in the order returned (page order, then order in
\* the page), each repository that is not skipped exactly once whatever
\* attempts failed, and nothing of another organization.
C17_RowsInListingOrder ==
    \A o \in Orgs :
        report[o].status = "written" =>
            [i \in 1..Len(report[o].rows) |-> report[o].rows[i].name]
                = ListedNames(o, OrgK(o))

\* C18: a pacing delay of one time unit follows every successful page of the
\* pull-request listing and of the repository listing, and none lies between
\* a failed attempt and its retry.
C18_DelayAfterEverySuccessfulPage ==
    [][/\ (\/ Len(prOkCursors') = Len(prOkCursors) + 1
           \/ Len(okCursors') = Len(okCursors) + 1) => slept' = slept + 1
       /\ fails' # fails => slept' = slept]_vars

\* The step ends a successful page after which the same listing goes on: the
\* page reports a further page and, in the enumerator, has entries.
ListingContinues ==
    \/ /\ Len(prOkCursors') = Len(prOkCursors) + 1
       /\ PullRequestPage(repos[idx].name, pr_cursor).hasNextPage
    \/ /\ Len(okCursors') = Len(okCursors) + 1
       /\ repos' # <<>>
       /\ has_next_page'

\* C18, amended: the delay of one time unit follows exactly the successful
\* pages after which the listing goes on; the last page of a listing, an
\* empty repository page and a failed attempt are followed by no delay.
C18_DelayBetweenPages ==
    [][/\ ListingContinues => slept' = slept + 1
       /\ ~ListingContinues => slept' = slept
       /\ fails' # fails => slept' = slept]_vars

\* One delay after the first page of a pull-request listing, none after the
\* failed attempt that followed it.
C18_Witness ==
    /\ pc = "pr_loop"
    /\ Len(prOkCursors) = 1
    /\ fails = 1
    /\ outcome \in {"soft", "transport", "processing"}
    /\ slept = 1

(* ---------------------------------------------------------------------- *)
(* The run when, from some moment on, every request fails whatever token   *)
(* is used (an outage, or every token rate-limited).  The failed attempts  *)
(* of the outage are not counted by fails, orgReqs and prReqs, which keeps *)
(* the history variables bounded.                                          *)
(* ---------------------------------------------------------------------- *)

\* From now on requests.post raises or returns "errors" for every token.
BeginOutage ==
    /\ ~outage
    /\ outage' = TRUE
    /\ UNCHANGED <<shift, arg, res, slept, token_index, pc, org, enumVars, variables,
                   prVars, report, fails, outcome, failKinds, orgHist, prHist>>

\* The enumerator gives up once every token has been tried.
EnumOutageGivesUp ==
    /\ pc = "enum_loop"
    /\ outage
    /\ variables' = [org |-> org, repo |-> "-", cursor |-> cursor]
    /\ token_index' = SwitchToken(token_index)
    /\ outcome' = "outage"
    /\ pc' = IF SwitchToken(token_index) = 0 THEN "enum_ret" ELSE pc
    /\ UNCHANGED <<envVars, slept, org, enumVars, prVars, report, fails, failKinds,
                   orgHist, prHist>>

\* The request of fetch_org_repos fails (lines 175-179 or 241-244):
\* switch_token(), and the while True loop starts over.
EnumOutage ==
    /\ pc = "enum_loop"
    /\ outage
    /\ variables' = [org |-> org, repo |-> "-", cursor |-> cursor]
    /\ token_index' = SwitchToken(token_index)
    /\ outcome' = "outage"
    /\ UNCHANGED <<envVars, slept, pc, org, enumVars, prVars, report, fails, failKinds,
                   orgHist, prHist>>

\* The request of fetch_pull_requests_count fails (lines 78-82 or 98-101):
\* switch_token(), and the while True loop starts over.
PrOutage ==
    /\ pc = "pr_loop"
    /\ outage
    /\ pr_variables' = [org |-> org, repo |-> repos[idx].name, cursor |-> pr_cursor]
    /\ token_index' = SwitchToken(token_index)
    /\ outcome' = "outage"
    /\ UNCHANGED <<envVars, slept, pc, org, enumVars, variables, open_count, closed_count,
                   pr_cursor, report, fails, failKinds, orgHist, prHist>>

OutageNext ==
    \/ Next
    \/ BeginOutage
    \/ EnumOutage
    \/ PrOutage

\* The program always takes its next step: every request returns or times
\* out, and nothing else can block the single thread.
OutageSpec == Init /\ [][OutageNext]_vars /\ WF_vars(OutageNext)

\* A request is due and every request fails.
Stuck == outage /\ pc \in {"enum_loop", "pr_loop"}

\* C19: when every request fails whatever token is used, the run never ends
\* and never notices that all tokens were tried: the program stays at the
\* same request, each failure moves token_index by one modulo the number of
\* tokens and the request is issued again with the same cursor, token_index
\* takes each of its values again and again, no row is appended and no file
\* is written.
C19_OutageCyclesForever ==
    /\ [][Stuck =>
            /\ Stuck'
            /\ pc' = pc
            /\ UNCHANGED <<org, cursor, pr_cursor, repo_details, report, repos, idx>>
            /\ token_index' # token_index =>
                   /\ token_index' = (token_index + 1) % NumTokens
                   /\ pc = "enum_loop" => variables' = [org |-> org, repo |-> "-",
                                                        cursor |-> cursor]
                   /\ pc = "pr_loop" => pr_variables'.cursor = pr_cursor]_vars
    /\ [](Stuck => [](pc \notin {"done", "crashed", "enum_ret", "main"}))
    /\ []((outage /\ pc = "main" /\ org = 1) =>
             [](/\ pc \in {"main", "enum_loop"}
                /\ repo_details = <<>>
                /\ \A o \in Orgs : report[o].status = "none"))
    /\ \A i \in 0..(NumTokens - 1) : Stuck ~> (token_index = i)

\* Every token has been tried at the first request of the run, and the
\* same request is due again.
C19_Witness ==
    /\ outage
    /\ pc = "enum_loop"
    /\ org = 1
    /\ fails = 0
    /\ outcome = "outage"
    /\ token_index = 0
    /\ variables = [org |-> 1, repo |-> "-", cursor |-> None]
    /\ repo_details = <<>>
    /\ \A o \in Orgs : report[o].status = "none"

\* C20: token_index is always in 0..N-1 and equals the number of failed
\* attempts so far modulo N: it moves only at a failed attempt, by one modulo
\* N, and a successful page, the start of a pull-request listing and the
\* start of an organization leave it as it is, so that a listing begins with
\* the token in use when the previous one ended.
C20_IndexNeverReset ==
    /\ [](/\ token_index \in 0..(NumTokens - 1)
          /\ token_index = fails % NumTokens)
    /\ [][/\ fails' \in {fails, fails + 1}
          /\ fails' = fails => token_index' = token_index
          /\ fails' = fails + 1 => token_index' = (token_index + 1) % NumTokens
          /\ (\/ Len(okCursors') = Len(okCursors) + 1
              \/ Len(prOkCursors') = Len(prOkCursors) + 1
              \/ pc = "enum_for" /\ pc' = "pr_loop"
              \/ pc = "main" /\ pc' = "enum_loop"
              \/ org' # org) => token_index' = token_index]_vars

\* The second organization starts with the token the first one ended with.
C20_Witness ==
    /\ pc = "enum_loop"
    /\ org = 2
    /\ orgReqs = 0
    /\ okCursors = <<>>
    /\ fails = 1
    /\ token_index = 1

====
